---- MODULE Spec2Model ----
(***************************************************************************)
(* GaiaComponents: the type-keyed sub component registry of                *)
(* Gaia::Components::Component (Component.hpp / Component.cpp).            *)
(*                                                                         *)
(* Every caller thread executes the registry operations statement by       *)
(* statement; the hooks are recorded, in the order the code invokes them,  *)
(* in the trace of the running operation.                                  *)
(***************************************************************************)
EXTENDS Integers, Sequences, FiniteSets, TLC

\* ------------------------------------------------------------------ bounds
NRoots   == 1      \* components constructed by the callers themselves
MaxComp  == 3      \* components constructed by AddComponent / AcquireComponent
NTypes   == 2      \* concrete component types
MaxVal   == 1      \* constructor arguments 1..MaxVal (SampleValue)
NThreads == 2      \* caller threads
MaxOps   == 2      \* operations the first thread calls under Spec
OtherOps == 1      \* operations every other thread calls under Spec
SeqOps   == 4      \* operations the single thread calls under SeqSpec
Fuel     == 4      \* recursion depth of the destructor (depth of a subtree)
RaceOps  == 1      \* operations each of two threads calls after its SeparateComponent under RaceSpec

\* nullptr
Null == 0

Roots   == 1..NRoots
Comp    == 1..(NRoots + MaxComp)
Types   == 1..NTypes
Threads == 1..NThreads

\* ------------------------------------------------------------------- state
VARIABLES
    status,             \* Comp -> "unborn" | "live" | "dead"
    typ,                \* Comp -> concrete type of the instance (Null: a root)
    SampleValue,        \* Comp -> payload of the instance
    SubComponents,      \* Comp -> set of map nodes [key, ptr]
    SubComponentsMutex, \* Comp -> [unique : thread or Null, shared : set of threads]
    Parent,             \* Comp -> parent pointer
    held,               \* Threads -> unique_ptrs the caller thread owns
    pc,                 \* Threads -> position of the thread
    frame,              \* Threads -> locals of the running operation
    trace,              \* Threads -> events of the running operation, in order
    last,               \* Threads -> the record of the call the thread completed last
    budget              \* Threads -> operations the thread may still call

vars == <<status, typ, SampleValue, SubComponents, SubComponentsMutex, Parent,
          held, pc, frame, trace, last, budget>>

\* ----------------------------------------------------------------- helpers
\* typeid(ComponentType).hash_code(): one key per concrete type.
hash_code(T) == T

\* dynamic_cast<T*>(c): the pointer if the instance is a T, nullptr otherwise.
dynamic_cast(T, c) == IF c # Null /\ typ[c] = T THEN c ELSE Null

\* SubComponents.end()
End == Null

\* SubComponents.find(hash): the key of the node found, or End.
find(n, hash) == IF \E e \in SubComponents[n] : e.key = hash THEN hash ELSE End

\* finder->second.get(): the pointer stored in the node the iterator names
\* (Null when the node holds a moved-from unique_ptr or is gone).
second(n, finder) ==
    IF \E e \in SubComponents[n] : e.key = finder
    THEN (CHOOSE e \in SubComponents[n] : e.key = finder).ptr
    ELSE Null

\* Component::GetSubComponent(hash) evaluated on the registry of n.
GetSubComponent(n, hash) ==
    IF find(n, hash) # End THEN second(n, find(n, hash)) ELSE Null

\* GetComponent<T>() evaluated on n.
GetComponent(n, T) == dynamic_cast(T, GetSubComponent(n, hash_code(T)))

\* HasComponent<T>() evaluated on n.
HasComponent(n, T) == GetSubComponent(n, hash_code(T)) # Null

\* The instances a registry owns.
Children(n) == {e.ptr : e \in SubComponents[n]} \ {Null}

\* GetParent() as the component c itself evaluates it.
GetParent(c) == Parent[c]

\* One entry of an operation's trace: a hook invocation or a statement of the
\* registry code, with what the hook can observe at that moment: the value
\* GetParent() returns to the child and whether the child is in the registry
\* of the node the event is about.
Ev(name, node, child) ==
    [ev |-> name, on |-> node, arg |-> child,
     parent |-> IF child = Null THEN Null ELSE GetParent(child),
     stored |-> IF node = Null THEN FALSE ELSE child \in Children(node)]

IdleFrame == [op |-> "none", self |-> Null, type |-> Null, hash |-> Null,
              component |-> Null, finder |-> End, before |-> {},
              todo |-> {}, seen |-> {}]

\* No call completed yet.
NoCall == [op |-> "none", self |-> Null, type |-> Null, component |-> Null,
           ret |-> Null, val |-> 0, has |-> FALSE, before |-> {}, trace |-> <<>>]

\* The record of a completed call.
Done(t, ret, has) ==
    [op |-> frame[t].op, self |-> frame[t].self, type |-> frame[t].type,
     component |-> frame[t].component, ret |-> ret,
     val |-> IF ret = Null THEN 0 ELSE SampleValue[ret], has |-> has,
     before |-> frame[t].before,
     trace |-> trace[t]]

\* The components a caller owns itself: its roots and the unique_ptrs it holds.
Owned(t) == {n \in Roots \cup held[t] : status[n] = "live"}

\* No other thread runs or will run an operation.
Alone(t) == \A u \in Threads \ {t} : budget[u] = 0 /\ pc[u] = "idle"

\* The nodes a thread may call an operation on: the components it owns (the
\* roots are shared by the threads) and, through the pointers AddComponent and
\* GetComponent return, the attached sub components, which a caller uses only
\* when no other thread can remove them meanwhile.
Receivers(t) ==
    Owned(t) \cup (IF Alone(t)
                   THEN {c \in Comp : status[c] = "live" /\ \E p \in Comp : c \in Children(p)}
                   ELSE {})

\* The next instance std::make_unique constructs.
Fresh == {c \in Comp : status[c] = "unborn" /\ \A d \in Comp : status[d] = "unborn" => c <= d}

\* std::make_unique can construct an instance within the bound: an id is left
\* for the caller and for every AcquireComponent that has not yet decided
\* whether it adds.
CanConstruct ==
    Cardinality({c \in Comp : status[c] = "unborn"}) >
        Cardinality({u \in Threads : frame[u].op = "AcquireComponent"
                                        /\ pc[u] \in {"get_lock", "get_return"}})

\* std::unique_lock lock(SubComponentsMutex) can be taken.
CanLockUnique(n) ==
    SubComponentsMutex[n].unique = Null /\ SubComponentsMutex[n].shared = {}

\* std::shared_lock lock(SubComponentsMutex) can be taken.
CanLockShared(n) == SubComponentsMutex[n].unique = Null

\* ---------------------------------------------------------------- Init
StateInit ==
    /\ status = [c \in Comp |-> IF c \in Roots THEN "live" ELSE "unborn"]
    /\ typ = [c \in Comp |-> Null]
    /\ SampleValue = [c \in Comp |-> 0]
    /\ SubComponents = [c \in Comp |-> {}]
    /\ SubComponentsMutex = [c \in Comp |-> [unique |-> Null, shared |-> {}]]
    /\ Parent = [c \in Comp |-> Null]
    /\ held = [t \in Threads |-> {}]
    /\ pc = [t \in Threads |-> "idle"]
    /\ frame = [t \in Threads |-> IdleFrame]
    /\ trace = [t \in Threads |-> <<>>]
    /\ last = [t \in Threads |-> NoCall]

Init == StateInit /\ budget = [t \in Threads |-> IF t = 1 THEN MaxOps ELSE OtherOps]

SeqInit == StateInit /\ budget = [t \in Threads |-> IF t = 1 THEN SeqOps ELSE 0]

\* The state after root.AddComponent<A>(), root.AddComponent<B>() and the
\* second thread's root.SeparateComponent<B>(): the root stores the A child,
\* the second thread holds the B child, whose Parent the separation left as it
\* was. Both threads have now called root.SeparateComponent<A>() and each has
\* RaceOps calls to make after it.
RaceInit ==
    LET root == 1
        a == NRoots + 1
        b == NRoots + 2
    IN  /\ status = [c \in Comp |-> IF c \in Roots \cup {a, b} THEN "live" ELSE "unborn"]
        /\ typ = [c \in Comp |-> IF c = a THEN 1 ELSE IF c = b THEN 2 ELSE Null]
        /\ SampleValue = [c \in Comp |-> IF c \in {a, b} THEN 1 ELSE 0]
        /\ SubComponents = [c \in Comp |-> IF c = root THEN {[key |-> hash_code(1), ptr |-> a]} ELSE {}]
        /\ SubComponentsMutex = [c \in Comp |-> [unique |-> Null, shared |-> {}]]
        /\ Parent = [c \in Comp |-> IF c \in {a, b} THEN root ELSE Null]
        /\ held = [t \in Threads |-> IF t = 2 THEN {b} ELSE {}]
        /\ pc = [t \in Threads |-> IF t <= 2 THEN "sep_lock" ELSE "idle"]
        /\ frame = [t \in Threads |->
                        IF t <= 2
                        THEN [op |-> "SeparateComponent", self |-> root, type |-> 1,
                              hash |-> hash_code(1), component |-> Null, finder |-> End,
                              before |-> {}, todo |-> {}, seen |-> {}]
                        ELSE IdleFrame]
        /\ trace = [t \in Threads |-> <<>>]
        /\ last = [t \in Threads |-> NoCall]
        /\ budget = [t \in Threads |-> IF t <= 2 THEN RaceOps ELSE 0]

\* ------------------------------------------------------------- destructor
\* The orders in which a range-for or the map's destructor may visit a set.
Orders(S) == {s \in [1..Cardinality(S) -> S] : \A i, j \in 1..Cardinality(S) : s[i] = s[j] => i = j}

RECURSIVE Concat(_, _)
Concat(seqs, i) == IF i > Len(seqs) THEN <<>> ELSE seqs[i] \o Concat(seqs, i + 1)

\* The instances destroyed with n: n and everything below it.
RECURSIVE Subtree(_, _)
Subtree(n, fuel) ==
    IF fuel = 0 THEN {n}
    ELSE {n} \cup UNION {Subtree(c, fuel - 1) : c \in Children(n)}

\* Mutant: the destructor has no loop over the sub components; the instances
\* are destroyed without being told.
DtorTraces_NoHooks(n, fuel) ==
    {[i \in 1..Cardinality(Subtree(n, fuel)) |-> Ev("~Component", Null, o[i])] :
        o \in {x \in Orders(Subtree(n, fuel)) : x[1] = n}}

\* Component::~Component of n: OnDetachedFromComponent() of every sub component
\* in the map's iteration order, then the members are destroyed, the map
\* destroying each sub component in turn. The set of event sequences it can
\* produce.
RECURSIVE DtorTraces(_, _)
DtorTraces(n, fuel) ==
    LET kids == Children(n)
    IN  IF fuel = 0 \/ kids = {}
        THEN {<<Ev("~Component", Null, n)>>}
        ELSE { <<Ev("~Component", Null, n)>>
               \o [i \in 1..Cardinality(kids) |-> Ev("OnDetachedFromComponent", n, o1[i])]
               \o Concat([i \in 1..Cardinality(kids) |-> sub[o2[i]]], 1) :
               o1 \in Orders(kids), o2 \in Orders(kids),
               sub \in {x \in [kids -> UNION {DtorTraces(k, fuel - 1) : k \in kids}] :
                            \A k \in kids : x[k] \in DtorTraces(k, fuel - 1)} }

\* The registries after the instances in S are destroyed.
Destroy(S, subs) == [c \in Comp |-> IF c \in S THEN {} ELSE subs[c]]

\* -------------------------------------------------------------- the calls
\* AddComponent<T>(v): std::make_unique<T>(v), then AddSubComponent, whose
\* first statement takes component_pointer.
CallAddComponent(t, n, T, v) ==
    /\ pc[t] = "idle" /\ budget[t] > 0 /\ n \in Receivers(t)
    /\ CanConstruct
    /\ \E c \in Fresh :
        /\ status' = [status EXCEPT ![c] = "live"]
        /\ typ' = [typ EXCEPT ![c] = T]
        /\ SampleValue' = [SampleValue EXCEPT ![c] = v]
        /\ frame' = [frame EXCEPT ![t] = [op |-> "AddComponent", self |-> n,
                        type |-> T, hash |-> hash_code(T), component |-> c, finder |-> End, before |-> {},
                    todo |-> {}, seen |-> {}]]
    /\ pc' = [pc EXCEPT ![t] = "add_lock"]
    /\ trace' = [trace EXCEPT ![t] = <<>>]
    /\ budget' = [budget EXCEPT ![t] = @ - 1]
    /\ UNCHANGED <<SubComponents, SubComponentsMutex, Parent, held, last>>

\* AdoptComponent<T>(std::move(x)): the caller's unique_ptr is released into
\* AddSubComponent under the key of T.
CallAdoptComponent(t, n, c) ==
    /\ pc[t] = "idle" /\ budget[t] > 0 /\ n \in Receivers(t)
    /\ c \in held[t] /\ c # n /\ status[c] = "live"
    /\ held' = [held EXCEPT ![t] = @ \ {c}]
    /\ frame' = [frame EXCEPT ![t] = [op |-> "AdoptComponent", self |-> n,
                    type |-> typ[c], hash |-> hash_code(typ[c]), component |-> c, finder |-> End, before |-> {},
                    todo |-> {}, seen |-> {}]]
    /\ pc' = [pc EXCEPT ![t] = "add_lock"]
    /\ trace' = [trace EXCEPT ![t] = <<>>]
    /\ budget' = [budget EXCEPT ![t] = @ - 1]
    /\ UNCHANGED <<status, typ, SampleValue, SubComponents, SubComponentsMutex, Parent, last>>

\* ------------------------------------------------ Component::AddSubComponent
\* std::unique_lock lock(SubComponentsMutex); auto finder = SubComponents.find(hash);
AddLock(t) ==
    LET n == frame[t].self
        f == find(n, frame[t].hash)
    IN  /\ pc[t] = "add_lock"
        /\ CanLockUnique(n)
        /\ SubComponentsMutex' = [SubComponentsMutex EXCEPT ![n].unique = t]
        /\ frame' = [frame EXCEPT ![t].finder = f, ![t].before = SubComponents[n]]
        /\ pc' = [pc EXCEPT ![t] = IF f # End THEN "add_component_detached" ELSE "add_emplace"]
        /\ UNCHANGED <<status, typ, SampleValue, SubComponents, Parent, held, trace, last, budget>>

\* Mutant: the replace path fires the two detach hooks in RemoveSubComponent's order.
AddOnComponentDetached_ChildFirst(t) ==
    LET n == frame[t].self
        old == second(n, frame[t].finder)
    IN  /\ pc[t] = "add_component_detached"
        /\ trace' = [trace EXCEPT ![t] =
                @ \o <<Ev("OnDetachedFromComponent", n, old), Ev("OnComponentDetached", n, old)>>]
        /\ pc' = [pc EXCEPT ![t] = "add_assign"]
        /\ UNCHANGED <<status, typ, SampleValue, SubComponents, SubComponentsMutex,
                       Parent, held, frame, last, budget>>

\* OnComponentDetached(finder->second.get());
AddOnComponentDetached(t) ==
    LET n == frame[t].self
    IN  /\ pc[t] = "add_component_detached"
        /\ trace' = [trace EXCEPT ![t] =
                Append(@, Ev("OnComponentDetached", n, second(n, frame[t].finder)))]
        /\ pc' = [pc EXCEPT ![t] = "add_detached_from"]
        /\ UNCHANGED <<status, typ, SampleValue, SubComponents, SubComponentsMutex,
                       Parent, held, frame, last, budget>>

\* Mutant: the replaced child is never told that it is detached.
AddOnDetachedFromComponent_Skipped(t) ==
    /\ pc[t] = "add_detached_from"
    /\ pc' = [pc EXCEPT ![t] = "add_assign"]
    /\ UNCHANGED <<status, typ, SampleValue, SubComponents, SubComponentsMutex,
                   Parent, held, frame, trace, last, budget>>

\* finder->second->OnDetachedFromComponent();
AddOnDetachedFromComponent(t) ==
    LET n == frame[t].self
    IN  /\ pc[t] = "add_detached_from"
        /\ trace' = [trace EXCEPT ![t] =
                Append(@, Ev("OnDetachedFromComponent", n, second(n, frame[t].finder)))]
        /\ pc' = [pc EXCEPT ![t] = "add_assign"]
        /\ UNCHANGED <<status, typ, SampleValue, SubComponents, SubComponentsMutex,
                       Parent, held, frame, last, budget>>

\* Mutant: the assignment adds a node for the new instance and keeps the old one.
Assign_KeepsOld(map, finder, c) == map \cup {[key |-> finder, ptr |-> c]}

\* The map after finder->second = std::move(component_instance).
Assign(map, finder, c) == {e \in map : e.key # finder} \cup {[key |-> finder, ptr |-> c]}

\* finder->second = std::move(component_instance); the unique_ptr assignment
\* deletes the instance the node held.
AddAssign(t) ==
    LET n   == frame[t].self
        old == second(n, frame[t].finder)
        c   == frame[t].component
        gone == IF old = Null THEN {} ELSE Subtree(old, Fuel)
    IN  /\ pc[t] = "add_assign"
        /\ \E tr \in (IF old = Null THEN {<<>>} ELSE DtorTraces(old, Fuel)) :
              trace' = [trace EXCEPT ![t] = (@ \o <<Ev("assign", n, c)>>) \o tr]
        /\ SubComponents' = [Destroy(gone, SubComponents) EXCEPT
                                ![n] = Assign(SubComponents[n], frame[t].finder, c)]
        /\ status' = [x \in Comp |-> IF x \in gone THEN "dead" ELSE status[x]]
        /\ pc' = [pc EXCEPT ![t] = "add_set_parent"]
        /\ UNCHANGED <<typ, SampleValue, SubComponentsMutex, Parent, held, frame, last, budget>>

\* SubComponents.emplace(hash, ...): inserts a node unless the key exists.
emplace(map, hash, c) ==
    IF \E e \in map : e.key = hash THEN map ELSE map \cup {[key |-> hash, ptr |-> c]}

\* SubComponents.emplace(hash, std::move(component_instance));
AddEmplace(t) ==
    LET n == frame[t].self
        c == frame[t].component
    IN  /\ pc[t] = "add_emplace"
        /\ SubComponents' = [SubComponents EXCEPT ![n] = emplace(@, frame[t].hash, c)]
        /\ trace' = [trace EXCEPT ![t] = Append(@, Ev("emplace", n, c))]
        /\ pc' = [pc EXCEPT ![t] = "add_set_parent"]
        /\ UNCHANGED <<status, typ, SampleValue, SubComponentsMutex, Parent, held,
                       frame, last, budget>>

\* Mutant: the parent pointer of the new child is not set.
AddSetParent_Omitted(t) ==
    /\ pc[t] = "add_set_parent"
    /\ pc' = [pc EXCEPT ![t] = "add_component_attached"]
    /\ UNCHANGED <<status, typ, SampleValue, SubComponents, SubComponentsMutex,
                   Parent, held, frame, trace, last, budget>>

\* component_pointer->Parent = this;
AddSetParent(t) ==
    LET n == frame[t].self
        c == frame[t].component
    IN  /\ pc[t] = "add_set_parent"
        /\ Parent' = [Parent EXCEPT ![c] = n]
        /\ trace' = [trace EXCEPT ![t] = Append(@, Ev("setParent", n, c))]
        /\ pc' = [pc EXCEPT ![t] = "add_component_attached"]
        /\ UNCHANGED <<status, typ, SampleValue, SubComponents, SubComponentsMutex,
                       held, frame, last, budget>>

\* OnComponentAttached(component_pointer);
AddOnComponentAttached(t) ==
    LET n == frame[t].self
    IN  /\ pc[t] = "add_component_attached"
        /\ trace' = [trace EXCEPT ![t] =
                Append(@, Ev("OnComponentAttached", n, frame[t].component))]
        /\ pc' = [pc EXCEPT ![t] = "add_attached_to"]
        /\ UNCHANGED <<status, typ, SampleValue, SubComponents, SubComponentsMutex,
                       Parent, held, frame, last, budget>>

\* component_pointer->OnAttachedToComponent();
AddOnAttachedToComponent(t) ==
    LET n == frame[t].self
    IN  /\ pc[t] = "add_attached_to"
        /\ trace' = [trace EXCEPT ![t] =
                Append(@, Ev("OnAttachedToComponent", n, frame[t].component))]
        /\ pc' = [pc EXCEPT ![t] = "add_return"]
        /\ UNCHANGED <<status, typ, SampleValue, SubComponents, SubComponentsMutex,
                       Parent, held, frame, last, budget>>

\* return component_pointer; the lock is released and the caller gets the
\* pointer (AddComponent, AdoptComponent and AcquireComponent dynamic_cast it
\* to the type it was stored under).
AddReturn(t) ==
    LET n == frame[t].self
    IN  /\ pc[t] = "add_return"
        /\ SubComponentsMutex' = [SubComponentsMutex EXCEPT ![n].unique = Null]
        /\ last' = [last EXCEPT ![t] =
                Done(t, dynamic_cast(frame[t].type, frame[t].component), FALSE)]
        /\ frame' = [frame EXCEPT ![t] = IdleFrame]
        /\ pc' = [pc EXCEPT ![t] = "idle"]
        /\ UNCHANGED <<status, typ, SampleValue, SubComponents, Parent, held, trace, budget>>
CallRemoveComponent(t, n, T) ==
    /\ pc[t] = "idle" /\ budget[t] > 0 /\ n \in Receivers(t)
    /\ frame' = [frame EXCEPT ![t] = [op |-> "RemoveComponent", self |-> n,
                    type |-> T, hash |-> hash_code(T), component |-> Null, finder |-> End, before |-> {},
                    todo |-> {}, seen |-> {}]]
    /\ pc' = [pc EXCEPT ![t] = "rm_lock"]
    /\ trace' = [trace EXCEPT ![t] = <<>>]
    /\ budget' = [budget EXCEPT ![t] = @ - 1]
    /\ UNCHANGED <<status, typ, SampleValue, SubComponents, SubComponentsMutex,
                   Parent, held, last>>

\* Mutant: the result of find is not compared with end().
RemoveLock_NoEndCheck(t) ==
    LET n == frame[t].self
    IN  /\ pc[t] = "rm_lock"
        /\ CanLockUnique(n)
        /\ SubComponentsMutex' = [SubComponentsMutex EXCEPT ![n].unique = t]
        /\ frame' = [frame EXCEPT ![t].finder = frame[t].hash, ![t].before = SubComponents[n]]
        /\ pc' = [pc EXCEPT ![t] = "rm_detached_from"]
        /\ UNCHANGED <<status, typ, SampleValue, SubComponents, Parent, held, trace, last, budget>>

\* --------------------------------------------- Component::RemoveSubComponent
\* std::unique_lock lock(SubComponentsMutex); auto finder = SubComponents.find(hash);
RemoveLock(t) ==
    LET n == frame[t].self
        f == find(n, frame[t].hash)
    IN  /\ pc[t] = "rm_lock"
        /\ CanLockUnique(n)
        /\ SubComponentsMutex' = [SubComponentsMutex EXCEPT ![n].unique = t]
        /\ frame' = [frame EXCEPT ![t].finder = f, ![t].before = SubComponents[n]]
        /\ pc' = [pc EXCEPT ![t] = IF f # End THEN "rm_detached_from" ELSE "rm_return"]
        /\ UNCHANGED <<status, typ, SampleValue, SubComponents, Parent, held, trace, last, budget>>

\* finder->second->OnDetachedFromComponent();
RemoveOnDetachedFromComponent(t) ==
    LET n == frame[t].self
    IN  /\ pc[t] = "rm_detached_from"
        /\ trace' = [trace EXCEPT ![t] =
                Append(@, Ev("OnDetachedFromComponent", n, second(n, frame[t].finder)))]
        /\ pc' = [pc EXCEPT ![t] = "rm_component_detached"]
        /\ UNCHANGED <<status, typ, SampleValue, SubComponents, SubComponentsMutex,
                       Parent, held, frame, last, budget>>

\* OnComponentDetached(finder->second.get());
RemoveOnComponentDetached(t) ==
    LET n == frame[t].self
    IN  /\ pc[t] = "rm_component_detached"
        /\ trace' = [trace EXCEPT ![t] =
                Append(@, Ev("OnComponentDetached", n, second(n, frame[t].finder)))]
        /\ pc' = [pc EXCEPT ![t] = "rm_erase"]
        /\ UNCHANGED <<status, typ, SampleValue, SubComponents, SubComponentsMutex,
                       Parent, held, frame, last, budget>>

\* The map after SubComponents.erase(finder).
erase(map, finder) == {e \in map : e.key # finder}

\* Mutant: the node is not erased and the child not destroyed.
RemoveErase_Omitted(t) ==
    /\ pc[t] = "rm_erase"
    /\ pc' = [pc EXCEPT ![t] = "rm_return"]
    /\ UNCHANGED <<status, typ, SampleValue, SubComponents, SubComponentsMutex,
                   Parent, held, frame, trace, last, budget>>

\* SubComponents.erase(finder); the node's unique_ptr deletes the instance.
RemoveErase(t) ==
    LET n   == frame[t].self
        old == second(n, frame[t].finder)
        gone == IF old = Null THEN {} ELSE Subtree(old, Fuel)
    IN  /\ pc[t] = "rm_erase"
        /\ \E tr \in (IF old = Null THEN {<<>>} ELSE DtorTraces(old, Fuel)) :
              trace' = [trace EXCEPT ![t] = (@ \o <<Ev("erase", n, old)>>) \o tr]
        /\ SubComponents' = [Destroy(gone, SubComponents) EXCEPT
                                ![n] = erase(SubComponents[n], frame[t].finder)]
        /\ status' = [x \in Comp |-> IF x \in gone THEN "dead" ELSE status[x]]
        /\ pc' = [pc EXCEPT ![t] = "rm_return"]
        /\ UNCHANGED <<typ, SampleValue, SubComponentsMutex, Parent, held, frame, last, budget>>

\* The end of RemoveSubComponent: the lock is released.
RemoveReturn(t) ==
    LET n == frame[t].self
    IN  /\ pc[t] = "rm_return"
        /\ SubComponentsMutex' = [SubComponentsMutex EXCEPT ![n].unique = Null]
        /\ last' = [last EXCEPT ![t] = Done(t, Null, FALSE)]
        /\ frame' = [frame EXCEPT ![t] = IdleFrame]
        /\ pc' = [pc EXCEPT ![t] = "idle"]
        /\ UNCHANGED <<status, typ, SampleValue, SubComponents, Parent, held, trace, budget>>

\* ------------------------------------------------ Component::GetSubComponent
\* GetComponent<T>(), HasComponent<T>() and the lookup AcquireComponent<T>()
\* starts with.
CallGetSubComponent(t, n, T, op) ==
    /\ pc[t] = "idle" /\ budget[t] > 0 /\ n \in Receivers(t)
    /\ op = "AcquireComponent" => CanConstruct
    /\ frame' = [frame EXCEPT ![t] = [op |-> op, self |-> n,
                    type |-> T, hash |-> hash_code(T), component |-> Null, finder |-> End, before |-> {},
                    todo |-> {}, seen |-> {}]]
    /\ pc' = [pc EXCEPT ![t] = "get_lock"]
    /\ trace' = [trace EXCEPT ![t] = <<>>]
    /\ budget' = [budget EXCEPT ![t] = @ - 1]
    /\ UNCHANGED <<status, typ, SampleValue, SubComponents, SubComponentsMutex,
                   Parent, held, last>>

\* Mutant: the lookup ignores the key and yields whatever node the map holds.
GetLock_AnyNode(t) ==
    LET n == frame[t].self
    IN  /\ pc[t] = "get_lock"
        /\ CanLockShared(n)
        /\ SubComponentsMutex' = [SubComponentsMutex EXCEPT ![n].shared = @ \cup {t}]
        /\ frame' = [frame EXCEPT ![t].before = SubComponents[n],
                                  ![t].component = IF SubComponents[n] = {} THEN Null
                                        ELSE (CHOOSE e \in SubComponents[n] : TRUE).ptr]
        /\ pc' = [pc EXCEPT ![t] = "get_return"]
        /\ UNCHANGED <<status, typ, SampleValue, SubComponents, Parent, held, trace, last, budget>>

\* std::shared_lock lock(SubComponentsMutex); auto finder = SubComponents.find(hash);
\* the result is finder->second.get(), or nullptr at end().
GetLock(t) ==
    LET n == frame[t].self
        f == find(n, frame[t].hash)
    IN  /\ pc[t] = "get_lock"
        /\ CanLockShared(n)
        /\ SubComponentsMutex' = [SubComponentsMutex EXCEPT ![n].shared = @ \cup {t}]
        /\ frame' = [frame EXCEPT ![t].finder = f, ![t].before = SubComponents[n],
                                  ![t].component = GetSubComponent(n, frame[t].hash)]
        /\ pc' = [pc EXCEPT ![t] = "get_return"]
        /\ UNCHANGED <<status, typ, SampleValue, SubComponents, Parent, held, trace, last, budget>>

\* GetSubComponent returns and releases the shared lock. GetComponent<T>
\* dynamic_casts the pointer to T, HasComponent<T> compares it with nullptr.
GetReturn(t) ==
    LET n == frame[t].self
        c == frame[t].component
        cast == dynamic_cast(frame[t].type, c)
    IN  /\ pc[t] = "get_return"
        /\ frame[t].op \in {"GetComponent", "HasComponent"}
        /\ SubComponentsMutex' = [SubComponentsMutex EXCEPT ![n].shared = @ \ {t}]
        /\ last' = [last EXCEPT ![t] = IF frame[t].op = "HasComponent"
                        THEN Done(t, Null, c # Null) ELSE Done(t, cast, FALSE)]
        /\ frame' = [frame EXCEPT ![t] = IdleFrame]
        /\ pc' = [pc EXCEPT ![t] = "idle"]
        /\ UNCHANGED <<status, typ, SampleValue, SubComponents, Parent, held, trace, budget>>

\* AcquireComponent<T>: if (component) return component;
AcquireFound(t) ==
    LET n == frame[t].self
        c == frame[t].component
        cast == dynamic_cast(frame[t].type, c)
    IN  /\ pc[t] = "get_return"
        /\ frame[t].op = "AcquireComponent"
        /\ cast # Null
        /\ SubComponentsMutex' = [SubComponentsMutex EXCEPT ![n].shared = @ \ {t}]
        /\ last' = [last EXCEPT ![t] = Done(t, cast, FALSE)]
        /\ frame' = [frame EXCEPT ![t] = IdleFrame]
        /\ pc' = [pc EXCEPT ![t] = "idle"]
        /\ UNCHANGED <<status, typ, SampleValue, SubComponents, Parent, held, trace, budget>>

\* Mutant: AcquireComponent adds a new instance without looking at the lookup's result.
AcquireAdd_Always(t) ==
    LET n == frame[t].self
    IN  /\ pc[t] = "get_return"
        /\ frame[t].op = "AcquireComponent"
        /\ SubComponentsMutex' = [SubComponentsMutex EXCEPT ![n].shared = @ \ {t}]
        /\ \E new \in Fresh :
            /\ status' = [status EXCEPT ![new] = "live"]
            /\ typ' = [typ EXCEPT ![new] = frame[t].type]
            /\ SampleValue' = [SampleValue EXCEPT ![new] = 0]
            /\ frame' = [frame EXCEPT ![t].component = new, ![t].finder = End]
        /\ pc' = [pc EXCEPT ![t] = "add_lock"]
        /\ UNCHANGED <<SubComponents, Parent, held, trace, last, budget>>

\* AcquireComponent<T>: return AddComponent<T>(); the instance is default
\* constructed (SampleValue {0}) and handed to AddSubComponent.
AcquireAdd(t) ==
    LET n == frame[t].self
        c == frame[t].component
        cast == dynamic_cast(frame[t].type, c)
    IN  /\ pc[t] = "get_return"
        /\ frame[t].op = "AcquireComponent"
        /\ cast = Null
        /\ SubComponentsMutex' = [SubComponentsMutex EXCEPT ![n].shared = @ \ {t}]
        /\ \E new \in Fresh :
            /\ status' = [status EXCEPT ![new] = "live"]
            /\ typ' = [typ EXCEPT ![new] = frame[t].type]
            /\ SampleValue' = [SampleValue EXCEPT ![new] = 0]
            /\ frame' = [frame EXCEPT ![t].component = new, ![t].finder = End]
        /\ pc' = [pc EXCEPT ![t] = "add_lock"]
        /\ UNCHANGED <<SubComponents, Parent, held, trace, last, budget>>
\* ------------------------------------------- Component::SeparateSubComponent
CallSeparateComponent(t, n, T) ==
    /\ pc[t] = "idle" /\ budget[t] > 0 /\ n \in Receivers(t)
    /\ frame' = [frame EXCEPT ![t] = [op |-> "SeparateComponent", self |-> n,
                    type |-> T, hash |-> hash_code(T), component |-> Null, finder |-> End, before |-> {},
                    todo |-> {}, seen |-> {}]]
    /\ pc' = [pc EXCEPT ![t] = "sep_lock"]
    /\ trace' = [trace EXCEPT ![t] = <<>>]
    /\ budget' = [budget EXCEPT ![t] = @ - 1]
    /\ UNCHANGED <<status, typ, SampleValue, SubComponents, SubComponentsMutex,
                   Parent, held, last>>

\* std::shared_lock lock(SubComponentsMutex); auto finder = SubComponents.find(hash);
SeparateLock(t) ==
    LET n == frame[t].self
        f == find(n, frame[t].hash)
    IN  /\ pc[t] = "sep_lock"
        /\ CanLockShared(n)
        /\ SubComponentsMutex' = [SubComponentsMutex EXCEPT ![n].shared = @ \cup {t}]
        /\ frame' = [frame EXCEPT ![t].finder = f, ![t].before = SubComponents[n]]
        /\ pc' = [pc EXCEPT ![t] = IF f # End THEN "sep_move_read" ELSE "sep_return"]
        /\ UNCHANGED <<status, typ, SampleValue, SubComponents, Parent, held, trace, last, budget>>

\* The iterator names a node that another thread's erase has freed since the
\* find (SeparateSubComponent holds the lock shared, so two of them overlap).
Dangling(n, finder) == finder # End /\ ~ \E e \in SubComponents[n] : e.key = finder

\* What the build can make of a use of the iterator: through a dangling one the
\* behaviour is undefined, the use goes unnoticed or the process dies (a fault
\* on a garbage pointer, the allocator's double free abort).
Outcomes(n, finder) == IF Dangling(n, finder) THEN {"unnoticed", "crash"} ELSE {"defined"}

\* The process is terminated: every thread stops where it is.
Crashed == [u \in Threads |-> "crashed"]

\* Mutant: the pointer moved out of the node is dropped, an empty unique_ptr returned.
SeparateMoveRead_Dropped(t) ==
    /\ pc[t] = "sep_move_read"
    /\ pc' = [pc EXCEPT ![t] = "sep_move_write"]
    /\ UNCHANGED <<status, typ, SampleValue, SubComponents, SubComponentsMutex,
                   Parent, held, frame, trace, last, budget>>

\* auto component = std::move(finder->second); first half: the pointer is read
\* out of the node.
SeparateMoveRead(t) ==
    LET n == frame[t].self
    IN  /\ pc[t] = "sep_move_read"
        /\ \E o \in Outcomes(n, frame[t].finder) :
            /\ frame' = [frame EXCEPT ![t].component =
                            IF o = "crash" THEN @ ELSE second(n, frame[t].finder)]
            /\ pc' = IF o = "crash" THEN Crashed ELSE [pc EXCEPT ![t] = "sep_move_write"]
        /\ UNCHANGED <<status, typ, SampleValue, SubComponents, SubComponentsMutex,
                       Parent, held, trace, last, budget>>

\* The map after the node's unique_ptr is moved from (it holds nullptr).
release(map, finder) ==
    {e \in map : e.key # finder} \cup {[key |-> e.key, ptr |-> Null] : e \in {x \in map : x.key = finder}}

\* auto component = std::move(finder->second); second half: the node is left
\* holding nullptr.
SeparateMoveWrite(t) ==
    LET n == frame[t].self
    IN  /\ pc[t] = "sep_move_write"
        /\ SubComponents' = [SubComponents EXCEPT ![n] = release(@, frame[t].finder)]
        /\ pc' = [pc EXCEPT ![t] = "sep_erase"]
        /\ UNCHANGED <<status, typ, SampleValue, SubComponentsMutex, Parent, held,
                       frame, trace, last, budget>>

\* SubComponents.erase(finder);
SeparateErase(t) ==
    LET n == frame[t].self
    IN  /\ pc[t] = "sep_erase"
        /\ SubComponents' = [SubComponents EXCEPT ![n] = erase(@, frame[t].finder)]
        /\ \E o \in Outcomes(n, frame[t].finder) :
            /\ trace' = [trace EXCEPT ![t] =
                            IF o = "crash" THEN @ ELSE Append(@, Ev("erase", n, frame[t].component))]
            /\ pc' = IF o = "crash" THEN Crashed ELSE [pc EXCEPT ![t] = "sep_return"]
        /\ UNCHANGED <<status, typ, SampleValue, SubComponentsMutex, Parent, held,
                       frame, last, budget>>

\* return component; (or an empty unique_ptr): the shared lock is released and
\* SeparateComponent<T> hands the caller a unique_ptr<T> of the dynamic_cast.
SeparateReturn(t) ==
    LET n == frame[t].self
        ret == dynamic_cast(frame[t].type, frame[t].component)
    IN  /\ pc[t] = "sep_return"
        /\ SubComponentsMutex' = [SubComponentsMutex EXCEPT ![n].shared = @ \ {t}]
        /\ held' = [held EXCEPT ![t] = @ \cup ({ret} \ {Null})]
        /\ last' = [last EXCEPT ![t] = Done(t, ret, FALSE)]
        /\ frame' = [frame EXCEPT ![t] = IdleFrame]
        /\ pc' = [pc EXCEPT ![t] = "idle"]
        /\ UNCHANGED <<status, typ, SampleValue, SubComponents, Parent, trace, budget>>

\* ------------------------------------------------- Component::~Component
\* A caller destroys a component it owns (a root going out of scope, a
\* unique_ptr it holds being reset) while no thread is inside an operation on it.
Destruct(t, n) ==
    LET gone == Subtree(n, Fuel)
    IN  /\ pc[t] = "idle" /\ budget[t] > 0 /\ n \in Owned(t)
        /\ \A u \in Threads : frame[u].self # n
        /\ frame' = [frame EXCEPT ![t] = [op |-> "~Component", self |-> n,
                        type |-> typ[n], hash |-> Null, component |-> n, finder |-> End,
                        before |-> SubComponents[n], todo |-> {}, seen |-> {}]]
        /\ \E tr \in DtorTraces(n, Fuel) : trace' = [trace EXCEPT ![t] = tr]
        /\ SubComponents' = Destroy(gone, SubComponents)
        /\ status' = [x \in Comp |-> IF x \in gone THEN "dead" ELSE status[x]]
        /\ held' = [held EXCEPT ![t] = @ \ {n}]
        /\ pc' = [pc EXCEPT ![t] = "dtor_return"]
        /\ budget' = [budget EXCEPT ![t] = @ - 1]
        /\ UNCHANGED <<typ, SampleValue, SubComponentsMutex, Parent, last>>

\* The destructor returns.
DestructReturn(t) ==
    /\ pc[t] = "dtor_return"
    /\ last' = [last EXCEPT ![t] = Done(t, Null, FALSE)]
    /\ frame' = [frame EXCEPT ![t] = IdleFrame]
    /\ pc' = [pc EXCEPT ![t] = "idle"]
    /\ UNCHANGED <<status, typ, SampleValue, SubComponents, SubComponentsMutex,
                   Parent, held, trace, budget>>

\* The thread is inside the critical section of a structural mutation: it holds
\* the lock in AddSubComponent or RemoveSubComponent, or in SeparateSubComponent
\* with the child found and its node not yet erased.
Writing(t) ==
    pc[t] \in {"add_component_detached", "add_detached_from", "add_assign", "add_emplace",
               "add_set_parent", "add_component_attached", "add_attached_to", "add_return",
               "rm_detached_from", "rm_component_detached", "rm_erase", "rm_return",
               "sep_move_read", "sep_move_write", "sep_erase"}

\* The thread is inside the critical section of GetSubComponent.
Reading(t) == pc[t] = "get_return"

\* ------------------------------------------------ Component::GetComponents
\* What a reader of the map sees of the node under key k: its key, the pointer
\* it stores and that child's parent reference.
Entries(n, k) ==
    {[key |-> e.key, ptr |-> e.ptr, parent |-> IF e.ptr = Null THEN Null ELSE GetParent(e.ptr)] :
        e \in {x \in SubComponents[n] : x.key = k}}

\* Another thread is inside a mutation of the map the reader iterates over (a
\* RemoveSubComponent that found nothing writes nothing); GetComponents()
\* returns SubComponents itself and takes no lock, so the accesses race.
Racing(t) ==
    \E u \in Threads \ {t} :
        /\ frame[u].self = frame[t].self /\ Writing(u)
        /\ ~ (frame[u].op = "RemoveComponent" /\ frame[u].finder = End)

\* for (auto& [hash, component] : n.GetComponents()): the caller starts to
\* iterate over the map; no lock is taken.
CallGetComponents(t, n) ==
    /\ pc[t] = "idle" /\ budget[t] > 0 /\ n \in Receivers(t)
    /\ frame' = [frame EXCEPT ![t] = [op |-> "GetComponents", self |-> n,
                    type |-> Null, hash |-> Null, component |-> Null, finder |-> End,
                    before |-> SubComponents[n],
                    todo |-> {hash_code(T) : T \in Types}, seen |-> {}]]
    /\ pc' = [pc EXCEPT ![t] = "enum_next"]
    /\ trace' = [trace EXCEPT ![t] = <<>>]
    /\ budget' = [budget EXCEPT ![t] = @ - 1]
    /\ UNCHANGED <<status, typ, SampleValue, SubComponents, SubComponentsMutex,
                   Parent, held, last>>

\* One step of the iteration: the order of an unordered_map is unspecified, so
\* the slots are reached in any order; the node under the slot's key, if the map
\* holds one at this moment, is read. A read that races with a writer is
\* undefined: it goes unnoticed or the process dies.
EnumNext(t) ==
    LET n == frame[t].self
    IN  /\ pc[t] = "enum_next"
        /\ frame[t].todo # {}
        /\ \E k \in frame[t].todo, o \in IF Racing(t) THEN {"unnoticed", "crash"} ELSE {"defined"} :
            /\ frame' = [frame EXCEPT ![t].todo = IF o = "crash" THEN @ ELSE @ \ {k},
                                      ![t].seen = IF o = "crash" THEN @ ELSE @ \cup Entries(n, k)]
            /\ pc' = IF o = "crash" THEN Crashed ELSE pc
        /\ UNCHANGED <<status, typ, SampleValue, SubComponents, SubComponentsMutex,
                       Parent, held, trace, last, budget>>

\* The iterator compares equal to end(): the loop is over.
EnumReturn(t) ==
    /\ pc[t] = "enum_next"
    /\ frame[t].todo = {}
    /\ last' = [last EXCEPT ![t] = Done(t, Null, FALSE)]
    /\ frame' = [frame EXCEPT ![t] = IdleFrame]
    /\ pc' = [pc EXCEPT ![t] = "idle"]
    /\ UNCHANGED <<status, typ, SampleValue, SubComponents, SubComponentsMutex,
                   Parent, held, trace, budget>>

\* ------------------------------------------------------------------- Next
Call(t) ==
    \E n \in Comp :
        \/ \E T \in Types, v \in 1..MaxVal : CallAddComponent(t, n, T, v)
        \/ \E c \in Comp : CallAdoptComponent(t, n, c)
        \/ \E T \in Types : CallRemoveComponent(t, n, T)
        \/ \E T \in Types : CallGetSubComponent(t, n, T, "GetComponent")
        \/ \E T \in Types : CallGetSubComponent(t, n, T, "HasComponent")
        \/ \E T \in Types : CallGetSubComponent(t, n, T, "AcquireComponent")
        \/ \E T \in Types : CallSeparateComponent(t, n, T)
        \/ CallGetComponents(t, n)
        \/ Destruct(t, n)

Step(t) ==
    \/ AddLock(t) \/ AddOnComponentDetached(t) \/ AddOnDetachedFromComponent(t)
    \/ AddAssign(t) \/ AddEmplace(t) \/ AddSetParent(t)
    \/ AddOnComponentAttached(t) \/ AddOnAttachedToComponent(t) \/ AddReturn(t)
    \/ RemoveLock(t) \/ RemoveOnDetachedFromComponent(t) \/ RemoveOnComponentDetached(t)
    \/ RemoveErase(t) \/ RemoveReturn(t)
    \/ GetLock(t) \/ GetReturn(t) \/ AcquireFound(t) \/ AcquireAdd(t)
    \/ SeparateLock(t) \/ SeparateMoveRead(t) \/ SeparateMoveWrite(t)
    \/ SeparateErase(t) \/ SeparateReturn(t)
    \/ EnumNext(t) \/ EnumReturn(t)
    \/ DestructReturn(t)

Next == \E t \in Threads : Call(t) \/ Step(t)

Spec == Init /\ [][Next]_vars

SeqSpec == SeqInit /\ [][Next]_vars

RaceSpec == RaceInit /\ [][Next]_vars
\* ================================================================ properties
\* The child the registry held under the operation's key when the operation
\* took the lock (Null: none).
OldChild(t) ==
    IF \E e \in frame[t].before : e.key = frame[t].hash
    THEN (CHOOSE e \in frame[t].before : e.key = frame[t].hash).ptr
    ELSE Null

\* The positions of the events named name about the child c in a trace.
Indices(tr, name, c) == {i \in 1..Len(tr) : tr[i].ev = name /\ tr[i].arg = c}

\* The thread has run AddSubComponent up to its return statement, having
\* found a child under the key.
Replaced(t) == pc[t] = "add_return" /\ OldChild(t) # Null

\* C1: in every state, every registry holds at most one node per key.
C1_Uniqueness ==
    \A n \in Comp : \A e1, e2 \in SubComponents[n] : e1.key = e2.key => e1 = e2

\* A replace has just overwritten the slot of a key that was present.
C1_Witness ==
    \E t \in Threads :
        /\ pc[t] = "add_set_parent" /\ OldChild(t) # Null
        /\ Cardinality(SubComponents[frame[t].self]) = 2

\* C2: when AddComponent<T> / AdoptComponent<T> finds a T child old, then at its
\* return GetComponent<T> yields the new instance, old is in the registry no
\* more, and OnDetachedFromComponent of old has fired exactly once, before the
\* one OnAttachedToComponent of the new child.
C2_ReplaceSemantics ==
    \A t \in Threads :
        (Replaced(t) /\ frame[t].op \in {"AddComponent", "AdoptComponent"}) =>
            LET n   == frame[t].self
                old == OldChild(t)
                new == frame[t].component
                det == Indices(trace[t], "OnDetachedFromComponent", old)
                att == Indices(trace[t], "OnAttachedToComponent", new)
            IN  /\ GetComponent(n, frame[t].type) = new
                /\ new # old
                /\ old \notin Children(n)
                /\ Cardinality(det) = 1
                /\ Cardinality(att) = 1
                /\ \A i \in det, j \in att : i < j

\* An adopted instance has replaced a child of its type.
C2_Witness ==
    \E t \in Threads : Replaced(t) /\ frame[t].op = "AdoptComponent"

C4_AttachOrder ==
    \A t \in Threads :
        pc[t] = "add_return" =>
            LET n   == frame[t].self
                new == frame[t].component
                tr  == trace[t]
                k   == Len(tr)
            IN  /\ k >= 3
                /\ tr[k - 2].ev = "setParent" /\ tr[k - 2].arg = new
                /\ tr[k - 1].ev = "OnComponentAttached" /\ tr[k - 1].on = n
                /\ tr[k - 1].arg = new /\ tr[k - 1].parent = n
                /\ tr[k].ev = "OnAttachedToComponent"
                /\ tr[k].arg = new /\ tr[k].parent = n
                /\ Indices(tr, "OnComponentAttached", new) = {k - 1}
                /\ Indices(tr, "OnAttachedToComponent", new) = {k}
                /\ Parent[new] = n

\* A child separated from one node has been adopted by another node: its parent
\* pointer named the first node until AddSubComponent set it.
C4_Witness ==
    \E t \in Threads :
        /\ pc[t] = "add_return" /\ frame[t].op = "AdoptComponent"
        /\ \E i \in 1..Len(trace[t]) :
            /\ trace[t][i].ev = "emplace"
            /\ trace[t][i].parent \notin {Null, frame[t].self}

\* C5: RemoveComponent<T> on a node holding a T child c fires
\* OnDetachedFromComponent of c (GetParent() of c being the node, c being in
\* the registry), then OnComponentDetached(c) of the node, then erases the node
\* of the map and destroys c; afterwards GetComponent<T> is null and the other
\* entries are the ones the registry had.
C5_Remove ==
    \A t \in Threads :
        (pc[t] = "rm_return" /\ OldChild(t) # Null) =>
            LET n  == frame[t].self
                c  == OldChild(t)
                tr == trace[t]
            IN  /\ Len(tr) >= 4
                /\ tr[1].ev = "OnDetachedFromComponent" /\ tr[1].arg = c
                /\ tr[1].parent = n /\ tr[1].stored
                /\ tr[2].ev = "OnComponentDetached" /\ tr[2].on = n
                /\ tr[2].arg = c /\ tr[2].stored
                /\ tr[3].ev = "erase" /\ tr[3].arg = c
                /\ tr[4].ev = "~Component" /\ tr[4].arg = c
                /\ Indices(tr, "OnDetachedFromComponent", c) = {1}
                /\ Indices(tr, "OnComponentDetached", c) = {2}
                /\ status[c] = "dead"
                /\ GetComponent(n, frame[t].type) = Null
                /\ SubComponents[n] = {e \in frame[t].before : e.key # frame[t].hash}

\* A child has been removed from a registry that holds another child too.
C5_Witness ==
    \E t \in Threads :
        /\ pc[t] = "rm_return" /\ OldChild(t) # Null
        /\ SubComponents[frame[t].self] # {}
\* C6: in the trace of every operation, OnComponentDetached(c) of the parent is
\* preceded by OnDetachedFromComponent of c.
C6_ParentDetachAfterChildDetach ==
    \A t \in Threads : \A i \in 1..Len(trace[t]) :
        trace[t][i].ev = "OnComponentDetached" =>
            \E j \in 1..(i - 1) :
                /\ trace[t][j].ev = "OnDetachedFromComponent"
                /\ trace[t][j].arg = trace[t][i].arg

\* C7: SeparateComponent<T> on a node holding a T child c fires
\* OnDetachedFromComponent of c, then OnComponentDetached(c) of the node,
\* removes the slot and returns c alive.
C7_SeparateFiresDetachHooks ==
    \A t \in Threads :
        (pc[t] = "sep_return" /\ OldChild(t) # Null) =>
            LET n   == frame[t].self
                c   == OldChild(t)
                det == Indices(trace[t], "OnDetachedFromComponent", c)
                pdt == Indices(trace[t], "OnComponentDetached", c)
            IN  /\ Cardinality(det) = 1
                /\ Cardinality(pdt) = 1
                /\ \A i \in det, j \in pdt : i < j
                /\ find(n, frame[t].hash) = End
                /\ frame[t].component = c
                /\ status[c] = "live"

\* C8: a component a caller holds outside every registry has no parent
\* reference.
C8_SeparatedHasNoParent ==
    \A t \in Threads : \A c \in held[t] : GetParent(c) = Null

\* C9: SeparateComponent<T> returns the T child when the node holds one and
\* null when it holds none, leaving the registry as it was in that case; a
\* SeparateComponent<T> that follows a SeparateComponent<T> on the same node
\* immediately returns null.
C9_IdempotentSeparation ==
    \A t \in Threads :
        pc[t] = "sep_return" =>
            LET n   == frame[t].self
                ret == dynamic_cast(frame[t].type, frame[t].component)
                present == \E e \in frame[t].before : e.key = frame[t].hash
            IN  /\ present => (ret # Null /\ ret = OldChild(t))
                /\ ~present => (ret = Null /\ SubComponents[n] = frame[t].before
                                /\ trace[t] = <<>>)
                /\ (/\ last[t].op = "SeparateComponent"
                    /\ last[t].self = n
                    /\ last[t].type = frame[t].type) => ret = Null

\* The second of two SeparateComponent<T> calls in a row returns, the first
\* having returned the child.
C9_Witness ==
    \E t \in Threads :
        /\ pc[t] = "sep_return"
        /\ last[t].op = "SeparateComponent" /\ last[t].ret # Null
        /\ last[t].self = frame[t].self /\ last[t].type = frame[t].type

\* The hooks of the child c itself in a trace, in order.
OwnHooks(tr, c) ==
    SelectSeq(tr, LAMBDA e : e.arg = c /\ e.ev \in {"OnDetachedFromComponent", "OnAttachedToComponent"})

\* C10: x = SeparateComponent<T>(); AdoptComponent<T>(move(x)) on a node holding
\* the T child c leaves GetComponent<T> returning c with its payload and with
\* the node as its parent, c's detach hook and then c's attach hook having
\* fired once each during the two calls.
C10_SeparateAdoptRoundTrip ==
    \A t \in Threads :
        (/\ pc[t] = "add_return" /\ frame[t].op = "AdoptComponent"
         /\ last[t].op = "SeparateComponent" /\ last[t].self = frame[t].self
         /\ last[t].ret = frame[t].component) =>
            LET n == frame[t].self
                c == frame[t].component
                h == OwnHooks(last[t].trace \o trace[t], c)
            IN  /\ GetComponent(n, frame[t].type) = c
                /\ SampleValue[c] = last[t].val
                /\ Parent[c] = n
                /\ Len(h) = 2
                /\ h[1].ev = "OnDetachedFromComponent"
                /\ h[2].ev = "OnAttachedToComponent"
\* The key of the operation was absent when the operation took the lock.
KeyAbsent(t) == ~ \E e \in frame[t].before : e.key = frame[t].hash

\* C11: every step that RemoveComponent<T> takes on a node without a T child
\* leaves the registries, the parent references and the instances as they are
\* and fires no hook, and the call returns.
C11_RemoveAbsent ==
    [][\A t \in Threads :
        (/\ frame[t].op = "RemoveComponent"
         /\ pc'[t] # pc[t] /\ pc' # Crashed
         /\ \/ pc[t] = "rm_lock" /\ find(frame[t].self, frame[t].hash) = End
            \/ pc[t] = "rm_return" /\ KeyAbsent(t)) =>
            /\ SubComponents' = SubComponents
            /\ Parent' = Parent
            /\ status' = status
            /\ trace' = trace /\ trace[t] = <<>>
            /\ pc'[t] \in {"rm_return", "idle"}
            /\ pc'[t] = "idle" =>
                    (last'[t].op = "RemoveComponent" /\ last'[t].trace = <<>>)]_vars

\* RemoveComponent<T> returns from a node that holds a child of another type only.
C11_Witness ==
    \E t \in Threads :
        /\ pc[t] = "rm_return" /\ frame[t].op = "RemoveComponent" /\ KeyAbsent(t)
        /\ SubComponents[frame[t].self] # {}

\* C12: GetComponent<T> returns the child stored under T's key, null when the
\* key is absent; HasComponent<T> returns true exactly when GetComponent<T>
\* is not null; no step of either changes a registry, a parent reference or an
\* instance, or fires a hook.
C12_GetHas ==
    [][\A t \in Threads :
        (/\ frame[t].op \in {"GetComponent", "HasComponent"}
         /\ pc'[t] # pc[t]) =>
            LET n == frame[t].self
                stored == {e.ptr : e \in {x \in SubComponents[n] : x.key = hash_code(frame[t].type)}}
            IN  /\ SubComponents' = SubComponents
                /\ Parent' = Parent
                /\ status' = status
                /\ trace' = trace /\ trace[t] = <<>>
                /\ pc'[t] = "idle" =>
                    /\ last'[t].trace = <<>>
                    /\ frame[t].op = "GetComponent" =>
                            /\ stored = {} => last'[t].ret = Null
                            /\ stored # {} => last'[t].ret \in stored
                    /\ frame[t].op = "HasComponent" =>
                            last'[t].has = (GetComponent(n, frame[t].type) # Null)]_vars

\* GetComponent<T> looks up a key whose child was separated by the call before.
C12_Witness ==
    \E t \in Threads :
        /\ pc[t] = "get_return" /\ frame[t].op = "GetComponent"
        /\ last[t].op = "SeparateComponent" /\ last[t].ret # Null
        /\ last[t].self = frame[t].self /\ last[t].type = frame[t].type
        /\ SubComponents[frame[t].self] # {}

\* The thread runs AcquireComponent<T> right after an AcquireComponent<T> on the
\* same node.
SecondAcquire(t) ==
    /\ frame[t].op = "AcquireComponent" /\ last[t].op = "AcquireComponent"
    /\ last[t].self = frame[t].self /\ last[t].type = frame[t].type

\* C13: for a single caller, the second of two consecutive AcquireComponent<T>
\* calls returns the instance the first returned, constructs nothing and fires
\* no hook; an AcquireComponent<T> that finds no T child attaches a new one as
\* AddComponent does: emplace, parent set, OnComponentAttached and
\* OnAttachedToComponent once each.
C13_AcquireIdempotent ==
    [][\A t \in Threads :
        /\ (SecondAcquire(t) /\ pc[t] = "get_return" /\ pc'[t] # pc[t]) =>
                /\ pc'[t] = "idle"
                /\ last'[t].ret = last[t].ret /\ last'[t].ret # Null
                /\ last'[t].trace = <<>>
                /\ status' = status
                /\ SubComponents' = SubComponents
                /\ Parent' = Parent
        /\ (frame[t].op = "AcquireComponent" /\ pc[t] = "add_return" /\ pc'[t] = "idle") =>
                LET n == frame[t].self
                    new == frame[t].component
                    tr == last'[t].trace
                IN  /\ KeyAbsent(t)
                    /\ last'[t].ret = new
                    /\ GetComponent(n, frame[t].type) = new
                    /\ Parent[new] = n
                    /\ Len(tr) = 4
                    /\ tr[1].ev = "emplace" /\ tr[2].ev = "setParent"
                    /\ tr[3].ev = "OnComponentAttached" /\ tr[3].arg = new
                    /\ tr[4].ev = "OnAttachedToComponent" /\ tr[4].arg = new]_vars

\* The second AcquireComponent<T> has looked up the child the first one constructed.
C13_Witness ==
    \E t \in Threads :
        SecondAcquire(t) /\ pc[t] = "get_return" /\ last[t].trace # <<>>

\* C14: the destructor of a component destroys every instance of its subtree;
\* each instance below the component receives OnDetachedFromComponent exactly
\* once, before its own destruction, and no OnComponentDetached is fired.
C14_DestructionPropagation ==
    [][\A t \in Threads :
        (pc[t] = "idle" /\ pc'[t] = "dtor_return") =>
            LET n    == frame'[t].self
                sub  == Subtree(n, Fuel)
                tr   == trace'[t]
                gone == {tr[i].arg : i \in {j \in 1..Len(tr) : tr[j].ev = "~Component"}}
            IN  /\ Children(n) \subseteq sub
                /\ gone = sub
                /\ \A c \in sub : status'[c] = "dead" /\ SubComponents'[c] = {}
                /\ \A c \in sub \ {n} :
                        /\ Cardinality(Indices(tr, "OnDetachedFromComponent", c)) = 1
                        /\ Cardinality(Indices(tr, "~Component", c)) = 1
                        /\ \A i \in Indices(tr, "OnDetachedFromComponent", c),
                              j \in Indices(tr, "~Component", c) : i < j
                /\ Indices(tr, "OnDetachedFromComponent", n) = {}
                /\ \A i \in 1..Len(tr) : tr[i].ev # "OnComponentDetached"]_vars

\* A component with a child that has a child of its own has been destroyed.
C14_Witness ==
    \E t \in Threads :
        /\ pc[t] = "dtor_return"
        /\ \E i \in 1..Len(trace[t]) :
            /\ trace[t][i].ev = "OnDetachedFromComponent"
            /\ trace[t][i].on # frame[t].self
\* C15: no two threads are at the same time inside the critical sections of a
\* mutation and of another mutation or a read of the same node.
C15_MutualExclusion ==
    \A t, u \in Threads :
        (t # u /\ frame[t].self = frame[u].self /\ Writing(t)) =>
            ~ (Writing(u) \/ Reading(u))

\* What a reader sees of the whole registry r of node n when no operation is
\* in progress on n: every stored child has n as its parent.
View(n, r) == {[key |-> e.key, ptr |-> e.ptr, parent |-> n] : e \in r}

\* The registries of the node a reader iterates over as they were before and
\* after the operations of the other threads: at the start of the iteration,
\* now, and when the other threads' current and last operations took the lock.
Versions(t) ==
    {frame[t].before, SubComponents[frame[t].self]}
        \cup {frame[u].before : u \in {x \in Threads \ {t} : frame[x].self = frame[t].self}}
        \cup {last[u].before : u \in {x \in Threads \ {t} : last[x].self = frame[t].self}}

\* The other threads only add and remove.
WritersOnly(t) ==
    \A u \in Threads \ {t} :
        /\ frame[u].op \in {"none", "AddComponent", "RemoveComponent"}
        /\ last[u].op \in {"none", "AddComponent", "RemoveComponent"}

\* C16: what a reader has seen at the end of an iteration over GetComponents(),
\* while other threads add and remove, is the registry as it was before or
\* after one of their operations.
C16_NoHalfUpdate ==
    \A t \in Threads :
        (/\ frame[t].op = "GetComponents" /\ pc[t] = "enum_next" /\ frame[t].todo = {}
         /\ WritersOnly(t)) =>
            frame[t].seen \in {View(frame[t].self, r) : r \in Versions(t)}

\* The owners of an instance: the registry slots that store it and the callers
\* that hold it in a unique_ptr.
Owners(c) ==
    Cardinality({n \in Comp : c \in Children(n)}) + Cardinality({t \in Threads : c \in held[t]})

\* C17: no live sub component is owned twice, by two registry slots, by two
\* callers, or by a slot and a caller.
C17_SingleOwnership ==
    \A c \in Comp \ Roots : status[c] = "live" => Owners(c) <= 1

\* The threads call only the operations that go through the lock.
LockedOpsOnly ==
    \A u \in Threads : frame[u].op # "GetComponents" /\ last[u].op # "GetComponents"

\* C18: a call of Add, Adopt, Acquire, Remove, Get, Has or Separate that is in
\* progress can always go on: its thread has a step to take, or
\* it waits for the lock of its own node while the thread that holds that lock
\* has a step to take; no thread holds the lock of a node other than the one its
\* operation was called on.
C18_EveryCallReturns ==
    \A t \in Threads :
        LockedOpsOnly =>
        /\ \A n \in Comp :
            (SubComponentsMutex[n].unique = t \/ t \in SubComponentsMutex[n].shared) =>
                n = frame[t].self
        /\ pc[t] # "idle" =>
            \/ ENABLED Step(t)
            \/ \E u \in Threads \ {t} :
                /\ \/ SubComponentsMutex[frame[t].self].unique = u
                   \/ u \in SubComponentsMutex[frame[t].self].shared
                /\ ENABLED Step(u)

\* C20: an AcquireComponent<T> that adds never replaces the T child that the
\* AcquireComponent<T> of another thread attached to the node and returned.
C20_AcquireNeverReplaces ==
    \A t, u \in Threads :
        (/\ t # u
         /\ frame[t].op = "AcquireComponent" /\ Writing(t)
         /\ last[u].op = "AcquireComponent" /\ last[u].self = frame[t].self
         /\ last[u].type = frame[t].type /\ last[u].ret # Null) =>
            OldChild(t) # last[u].ret
\* C19: while no operation is in progress on a node, every child its registry
\* stores has it as parent.
C19_ParentOfStored ==
    \A P \in Comp :
        (status[P] = "live" /\ \A t \in Threads : frame[t].self # P) =>
            \A c \in Children(P) : Parent[c] = P
====
